---- MODULE Spec2Model ----
(***************************************************************************)
(* Model of scripts/hna/build_hna_data.py: the HTTP transport with retry   *)
(* and backoff, the Census fallback-chain adapters, the DOLA SYA download  *)
(* with cache fallback, the LEHD download, the run orchestrator main, the   *)
(* county list, and as pure functions the log redactor, the tabular reader *)
(* with banner skip and the county filters.                                *)
(*                                                                         *)
(* The program is single threaded.  A top-level call (Call_* actions)      *)
(* starts one function; the frames http, census, dola and run hold the     *)
(* position and locals of the functions on the call stack.  The network,   *)
(* the file system and the clock are the environment: every GET outcome    *)
(* and every file-system fault is drawn with \E.                           *)
(***************************************************************************)
EXTENDS Integers, Sequences, FiniteSets, TLC

VARIABLES
    top,      \* the top-level call in progress and how it ended
    http,     \* frame of http_get_text / http_get_json
    census,   \* frame of fetch_acs_profile / fetch_acs_s0801
    dola,     \* frame of load_dola_sya (and the download_dola_sya it calls)
    run,      \* frame of main
    fs,       \* file system: directories, cache file, artifacts; and the
              \* payload of the last download that succeeded (downloaded)
    log,      \* log entries emitted during the current top-level call
    net,      \* GET requests and sleeps of the current top-level call
    lehd,     \* frame of download_lehd
    rd,       \* input and outputs of the redactor (SpecRedact only)
    csv,      \* input and result of read_csv_with_banner_skip (SpecBanner only)
    flt,      \* input and results of the county filters (SpecFilter only)
    counties  \* the list returned by fetch_counties

\* the variables of the pure functions
pure == <<rd, csv, flt>>

vars == <<top, http, census, dola, run, fs, log, net, lehd, counties, pure>>

(***************************************************************************)
(* Bounds                                                                  *)
(***************************************************************************)
MaxRetries == 3          \* largest retries argument of a direct transport call
NPayloads == 2           \* distinct upstream payloads per kind
MaxCalls == 2            \* top-level calls in one behaviour
MaxSegs == 4             \* redactor inputs are built from at most MaxSegs pieces
MaxLines == 3            \* lines of an input file of the tabular reader
MaxRows == 2             \* rows of an input table of the county filters

(***************************************************************************)
(* Program constants                                                       *)
(***************************************************************************)
DefaultRetries == 3
DefaultBackoff == <<17, 10>>        \* 1.7 as a fraction num/den
Backoffs == {<<2, 1>>, <<17, 10>>}

\* Every Python value of the model is a record of one shape: what it is,
\* which one it is (payload number, or the attempt that raised it) and, for
\* a CSV text, whether the table engine can parse it.
Val(type, id, good) == [type |-> type, id |-> id, good |-> good]

None == Val("None", 0, FALSE)
NoAttemptsMade == Val("RuntimeError", 0, FALSE)

RECURSIVE Pow(_, _)
Pow(b, n) == IF n = 0 THEN 1 ELSE b * Pow(b, n - 1)

\* backoff ** attempt, as the fraction <<num, den>>
Wait(backoff, attempt) == <<Pow(backoff[1], attempt), Pow(backoff[2], attempt)>>

(***************************************************************************)
(* Redactor: redact.  A string is a sequence of pieces: single characters,  *)
(* and words that hold none of k, =, & and white space, which the regular   *)
(* expression treats as it treats one ordinary character.                   *)
(***************************************************************************)
KeyEq == <<"k", "e", "y", "=">>
Mask == <<"*", "*", "*">>
Secret == <<"S", "E", "C", "R", "E", "T", "1", "2", "3">>

\* the class [&\s] that ends a value
IsDelim(c) == c \in {"&", " ", "\t", "\n"}

\* the regular expression (key=)[^&\s]+ matches at the head of s
MatchesAt(s) ==
    /\ Len(s) >= 5
    /\ SubSeq(s, 1, 4) = KeyEq
    /\ ~IsDelim(s[5])

\* what is left of s after the greedy run [^&\s]*
RECURSIVE SkipValue(_)
SkipValue(s) ==
    IF s = <<>> \/ IsDelim(Head(s)) THEN s ELSE SkipValue(Tail(s))

\* a substitution with count=1: only the first match is replaced
RECURSIVE redact_first(_)
redact_first(s) ==
    IF s = <<>> THEN <<>>
    ELSE IF MatchesAt(s)
    THEN KeyEq \o Mask \o SkipValue(SubSeq(s, 5, Len(s)))
    ELSE <<Head(s)>> \o redact_first(Tail(s))

\* re.sub(r"(key=)[^&\s]+", r"\1***", s): every leftmost non-overlapping
\* match is replaced, the scan goes on behind the match
RECURSIVE redact(_)
redact(s) ==
    IF s = <<>> THEN <<>>
    ELSE IF MatchesAt(s)
    THEN KeyEq \o Mask \o redact(SkipValue(SubSeq(s, 5, Len(s))))
    ELSE <<Head(s)>> \o redact(Tail(s))

(***************************************************************************)
(* URLs and exception texts                                                *)
(***************************************************************************)
DOLA_SYA_URL == <<"https://demography.dola.colorado.gov",
                  "/assets/downloads/county_sya_estimates.csv">>
CENSUS_BASE == <<"https://api.census.gov", "/data">>
LEHD_BASE == <<"https://lehd.ces.census.gov", "/data/lodes/LODES8">>

\* the arguments of the Census calls: year, variables, geo and the API key
Year == <<"2022">>
Variables == <<"NAME">>
Geo == <<"state:08">>
ApiKey == Secret

\* url of _census_get: f"{CENSUS_BASE}/{year}/{dataset}?{params}"
CensusUrl(dataset, key) ==
    CENSUS_BASE \o <<"/">> \o Year \o <<"/", dataset, "?">> \o
    <<"g", "e", "t", "=">> \o Variables \o <<"&", "f", "o", "r", "=">> \o Geo \o
    (IF key THEN <<"&", "k", "e", "y", "=">> \o ApiKey ELSE <<>>)

\* str(exc) of the exceptions: requests puts the URL into the text of an
\* HTTPError (raise_for_status: "... for url: <url>") and the path with the
\* query into the text of a ConnectionError ("Max retries exceeded with
\* url: <path>"); the other texts hold no URL
ExcText(exc, url) ==
    CASE exc.type = "HTTPError" ->
           <<"503", " ", "Server", " ", "Error", " ", "for", " ", "url:", " ">> \o url
      [] exc.type = "ConnectionError" ->
           <<"Max", " ", "retries", " ", "exceeded", " ", "with", " ", "url:", " ">>
               \o Tail(url)
      [] exc.type = "Timeout" -> <<"Read", " ", "timed", " ", "out.">>
      [] exc.type = "JSONDecodeError" -> <<"Expecting", " ", "value">>
      [] exc.type = "RuntimeError" -> <<"No", " ", "attempts", " ", "made">>
      [] exc.type = "OSError" -> <<"Permission", " ", "denied">>
      [] OTHER -> <<>>

(***************************************************************************)
(* Log and network trace                                                   *)
(***************************************************************************)
Entry(level, fn, msg, attempt, dataset) ==
    [level |-> level, fn |-> fn, msg |-> msg, attempt |-> attempt,
     dataset |-> dataset, url |-> <<>>, exc |-> <<>>]

\* an entry whose arguments include a URL and the text of an exception
Text(entry, url, exc) == [entry EXCEPT !.url = url, !.exc = exc]

GetEvent(fn, target) == [op |-> "GET", fn |-> fn, target |-> target, wait |-> <<0, 1>>]
SleepEvent(fn, w) == [op |-> "sleep", fn |-> fn, target |-> "", wait |-> w]

(***************************************************************************)
(* Transport: http_get_text, http_get_json                                 *)
(***************************************************************************)
TransportFns == {"http_get_text", "http_get_json"}

\* requests.get / raise_for_status failures, raised by attempt number n
RequestErrors(n) ==
    {Val(t, n, FALSE) : t \in {"ConnectionError", "Timeout", "HTTPError"}}

\* resp.json() on a body that is not JSON raises
\* requests.exceptions.JSONDecodeError, a subclass of RequestException
DecodeErrors(n) == {Val("JSONDecodeError", n, FALSE)}

\* a handler that lets the decode error of resp.json() through
CatchesTransportOnly(exc) ==
    exc.type \in {"ConnectionError", "Timeout", "HTTPError"}

\* what `except requests.RequestException` catches
IsRequestException(exc) ==
    exc.type \in {"ConnectionError", "Timeout", "HTTPError", "JSONDecodeError"}

\* resp.text of a 2xx response
TextBodies == {Val("text", i, g) : i \in 1..NPayloads, g \in BOOLEAN}

\* resp.json() of a 2xx response with a JSON body; JSON null parses to None
JsonValues == {Val(t, i, TRUE) : t \in {"list", "object"}, i \in 1..NPayloads}
                  \cup {None}

IsExc(v) == v.type \in {"ConnectionError", "Timeout", "HTTPError",
                        "JSONDecodeError", "RuntimeError", "OSError"}

\* every way one loop iteration's try-block can end
Outcomes(fn, n) ==
    IF fn = "http_get_text"
    THEN TextBodies \cup RequestErrors(n)
    ELSE JsonValues \cup RequestErrors(n) \cup DecodeErrors(n)

\* the kinds of failure a transport function can meet
Faults(fn) == {o.type : o \in {x \in Outcomes(fn, 1) : IsExc(x)}}

\* the outcomes of one GET during a call with the given fault
OutcomesUnder(fault, fn, n) ==
    {o \in Outcomes(fn, n) : IsExc(o) => o.type = fault}

IdleHttp == [pc |-> "idle", fn |-> "", target |-> "", url |-> <<>>, retries |-> 0,
             backoff |-> <<1, 1>>, attempt |-> 0, last_exc |-> None,
             result |-> None]

\* entry of http_get_text / http_get_json: last_exc placeholder, loop start
StartHttp(fn, target, url, retries, backoff) ==
    [pc |-> "loop", fn |-> fn, target |-> target, url |-> url,
     retries |-> retries,
     backoff |-> backoff, attempt |-> 0, last_exc |-> NoAttemptsMade,
     result |-> None]

\* a loop that also sleeps after the last attempt
SleepsAfterEvery(attempt, retries) == attempt < retries

\* `if attempt < retries - 1`: a failed attempt that is not the last one
\* is logged and followed by a sleep
SleepsAfter(attempt, retries) == attempt < retries - 1

\* a loop that tests its bound only behind the first iteration
LoopAtLeastOnce(attempt, retries) == attempt < retries \/ attempt = 0

\* `for attempt in range(retries)`: there is another iteration
LoopContinues(attempt, retries) == attempt < retries

\* one iteration of `for attempt in range(retries)`
http_get_attempt ==
    /\ http.pc = "loop"
    /\ LoopContinues(http.attempt, http.retries)
    /\ \E o \in OutcomesUnder(top.fault, http.fn, http.attempt + 1) :
          IF ~IsExc(o)
          THEN /\ http' = [http EXCEPT !.pc = "returned", !.result = o]
               /\ net' = Append(net, GetEvent(http.fn, http.target))
               /\ log' = log
          ELSE IF IsRequestException(o)
          THEN /\ http' = [http EXCEPT !.last_exc = o,
                                       !.attempt = http.attempt + 1]
               /\ IF SleepsAfter(http.attempt, http.retries)
                  THEN /\ log' = Append(log,
                                     Text(Entry("warning", http.fn, "retrying",
                                                http.attempt + 1, http.target),
                                          redact(http.url), ExcText(o, http.url)))
                       /\ net' = net \o <<GetEvent(http.fn, http.target),
                                           SleepEvent(http.fn,
                                               Wait(http.backoff, http.attempt))>>
                  ELSE /\ log' = log
                       /\ net' = Append(net, GetEvent(http.fn, http.target))
          ELSE /\ http' = [http EXCEPT !.pc = "raised", !.result = o]
               /\ net' = Append(net, GetEvent(http.fn, http.target))
               /\ log' = log
    /\ UNCHANGED <<top, census, dola, run, fs, lehd, counties, pure>>

\* the loop is over without a return: raise last_exc (text) or
\* log.error and return None (JSON)
http_get_exhausted ==
    /\ http.pc = "loop"
    /\ ~LoopContinues(http.attempt, http.retries)
    /\ IF http.fn = "http_get_text"
       THEN /\ http' = [http EXCEPT !.pc = "raised", !.result = http.last_exc]
            /\ log' = log
       ELSE /\ http' = [http EXCEPT !.pc = "returned", !.result = None]
            /\ log' = Append(log,
                          Text(Entry("error", http.fn, "all retries failed",
                                     0, http.target),
                               redact(http.url),
                               ExcText(http.last_exc, http.url)))
    /\ UNCHANGED <<top, census, dola, run, fs, net, lehd, counties, pure>>

(***************************************************************************)
(* Top-level calls                                                         *)
(***************************************************************************)
CensusFns == {"fetch_acs_profile", "fetch_acs_s0801"}

IdleCensus == [pc |-> "idle", fn |-> "", idx |-> 0, key |-> FALSE,
               result |-> None]
IdleDola == [pc |-> "idle", success |-> FALSE, parsed |-> FALSE,
             result |-> None]
IdleRun == [pc |-> "idle", result |-> None, exit |-> -1]
IdleLehd == [pc |-> "idle", at |-> "", result |-> None]

\* no list of counties has been returned by the current call
NoCounties == <<>>

Frame(fn) ==
    CASE fn \in TransportFns -> http
      [] fn \in CensusFns -> census
      [] fn = "load_dola_sya" -> dola
      [] fn = "main" -> run
      [] fn = "download_lehd" -> lehd
      [] fn = "fetch_counties" -> [pc |-> "returned", result |-> counties]
      [] OTHER -> [pc |-> "returned", result |-> None]

Terminal(f) == f.pc \in {"returned", "raised"}

\* no call is in progress: the interpreter is ready for the next one
Idle == Terminal(Frame(top.fn)) /\ top.n < MaxCalls

\* The calls that neither read nor write a file (the transport, the Census
\* adapters, fetch_counties) start from an empty log and trace and behave the
\* same after any history: they are explored as the first call of a behaviour
IdleFresh == Idle /\ top.n = 0

\* invoked: the adapters and entry points entered during the call, in order
\* fault: the kind of failure the upstream shows during the call (an outage
\* has one kind: every GET of the call that fails, fails with it)
NewTop(fn) == [fn |-> fn, wrote |-> {}, n |-> top.n + 1, invoked |-> <<fn>>,
               fault |-> "none"]


\* the url arguments of the direct calls: without and with an API key
DirectUrls == {CensusUrl("acs/acs1/profile", k) : k \in BOOLEAN}

\* a direct call of the transport with explicit retries and backoff
Call_http_get ==
    /\ IdleFresh
    /\ \E fn \in TransportFns, r \in (-1)..MaxRetries, b \in Backoffs,
          u \in DirectUrls :
          /\ \E f \in Faults(fn) : top' = [NewTop(fn) EXCEPT !.fault = f]
          /\ http' = StartHttp(fn, "url", u, r, b)
    /\ census' = IdleCensus
    /\ dola' = IdleDola
    /\ run' = IdleRun
    /\ lehd' = IdleLehd
    /\ log' = <<>>
    /\ net' = <<>>
    /\ counties' = NoCounties
    /\ UNCHANGED <<fs, pure>>

(***************************************************************************)
(* Census ACS adapters                                                     *)
(***************************************************************************)
ProfileAttempts == <<"acs/acs1/profile", "acs/acs1/subject",
                     "acs/acs5/profile", "acs/acs5/subject">>
S0801Attempts == <<"acs/acs1/subject", "acs/acs5/subject">>

Attempts(fn) == IF fn = "fetch_acs_profile" THEN ProfileAttempts
                ELSE S0801Attempts

\* a _census_get without the isinstance check
census_get_any(data) == data

\* _census_get after http_get_json returned `data`
census_get(data) == IF data = None \/ data.type # "list" THEN None ELSE data

\* _census_get up to its call of http_get_json
CensusRequest(dataset, key) ==
    [l |-> Text(Entry("info", "_census_get", "Census request", 0, dataset),
                redact(CensusUrl(dataset, key)), <<>>),
     h |-> StartHttp("http_get_json", dataset, CensusUrl(dataset, key),
                     DefaultRetries, DefaultBackoff)]

Call_fetch_acs ==
    /\ IdleFresh
    /\ \E fn \in CensusFns, k \in BOOLEAN, f \in Faults("http_get_json") :
          /\ top' = [NewTop(fn) EXCEPT !.fault = f]
          /\ census' = [pc |-> "request", fn |-> fn, idx |-> 1, key |-> k,
                        result |-> None]
          /\ http' = CensusRequest(Attempts(fn)[1], k).h
          /\ log' = <<CensusRequest(Attempts(fn)[1], k).l>>
    /\ dola' = IdleDola
    /\ run' = IdleRun
    /\ lehd' = IdleLehd
    /\ net' = <<>>
    /\ counties' = NoCounties
    /\ UNCHANGED <<fs, pure>>

\* an adapter that logs the exhaustion error inside the loop
fetch_acs_logs_each(fn, dataset, result, last) ==
    IF result # None
    THEN <<Entry("info", fn, "succeeded", 0, dataset)>>
    ELSE <<Entry("warning", fn, "returned no data", 0, dataset),
           Entry("error", fn, "all fallbacks exhausted", 0, "")>>

\* the log entries of one loop iteration of the adapter, and of the code
\* behind the loop when the iteration was the last one
fetch_acs_logs(fn, dataset, result, last) ==
    IF result # None
    THEN <<Entry("info", fn, "succeeded", 0, dataset)>>
    ELSE IF ~last
    THEN <<Entry("warning", fn, "returned no data", 0, dataset)>>
    ELSE <<Entry("warning", fn, "returned no data", 0, dataset),
           Entry("error", fn, "all fallbacks exhausted", 0, "")>>

\* the body of `for dataset, yr in attempts` after _census_get's request
\* came back, up to the next request or the return
fetch_acs_step ==
    /\ census.pc = "request"
    /\ Terminal(http)
    /\ LET fn == census.fn
           dataset == Attempts(fn)[census.idx]
           result == census_get(http.result)
           last == census.idx >= Len(Attempts(fn))
           logs == fetch_acs_logs(fn, dataset, result, last)
       IN IF http.pc = "raised"
          THEN /\ census' = [census EXCEPT !.pc = "raised",
                                           !.result = http.result]
               /\ UNCHANGED <<http, log>>
          ELSE IF result # None \/ last
          THEN /\ census' = [census EXCEPT !.pc = "returned",
                                           !.result = result]
               /\ log' = log \o logs
               /\ http' = http
          ELSE /\ census' = [census EXCEPT !.idx = census.idx + 1]
               /\ log' = log \o logs \o
                         <<CensusRequest(Attempts(fn)[census.idx + 1], census.key).l>>
               /\ http' = CensusRequest(Attempts(fn)[census.idx + 1], census.key).h
    /\ UNCHANGED <<top, dola, run, fs, net, lehd, counties, pure>>

(***************************************************************************)
(* File system                                                             *)
(***************************************************************************)
NoFile == Val("absent", 0, FALSE)
NoGeo == [generated |-> "", version |-> ""]

\* os.makedirs(path, exist_ok=True) returns (TRUE) or raises OSError (FALSE);
\* it cannot fail on a directory that is already there
Makedirs(exists) == IF exists THEN {TRUE} ELSE BOOLEAN

\* open(dest, "w") and fh.write(text): written whole, open refused (file
\* untouched), or the write breaks off and leaves a truncated file
WriteOutcomes == {"ok", "open_fail", "write_fail"}

\* the content of a file whose write broke off; g: whether it still parses
Truncated(g) == Val("text", 0, g)

\* os.path.exists(cache)
Exists(file) == file # NoFile

\* read_csv_with_banner_skip as the adapters see it: a table or an exception
ReadCsv(file) == IF file.good THEN Val("table", file.id, TRUE)
                 ELSE Val("ParseError", file.id, FALSE)

(***************************************************************************)
(* DOLA SYA: download_dola_sya, load_dola_sya                              *)
(***************************************************************************)
DolaFile == "dola_sya_county.csv"

\* download_dola_sya from the return of http_get_text on: the body is
\* written to dest, every exception of the try-block gives False
download_dola_sya(h, cache, w, g) ==
    LET failed(exc) ==
            <<Text(Entry("warning", "download_dola_sya", "download failed", 0, ""),
                   <<>>, ExcText(exc, h.url))>>
    IN IF h.pc = "raised"
       THEN [success |-> FALSE, cache |-> cache, wrote |-> {},
             logs |-> failed(h.result)]
       ELSE IF w = "ok"
       THEN [success |-> TRUE, cache |-> h.result, wrote |-> {DolaFile},
             logs |-> <<Entry("info", "download_dola_sya", "saved", 0, "")>>]
       ELSE IF w = "open_fail"
       THEN [success |-> FALSE, cache |-> cache, wrote |-> {},
             logs |-> failed(Val("OSError", 0, FALSE))]
       ELSE [success |-> FALSE, cache |-> Truncated(g), wrote |-> {DolaFile},
             logs |-> failed(Val("OSError", 0, FALSE))]

\* a load_dola_sya that gives up as soon as the download failed
load_dola_sya_no_cache(success, cache) ==
    IF ~success
    THEN [result |-> None, parsed |-> FALSE,
          logs |-> <<Entry("warning", "load_dola_sya", "unavailable, no cache", 0, "")>>]
    ELSE [result |-> IF ReadCsv(cache).type = "table" THEN ReadCsv(cache) ELSE None,
          parsed |-> TRUE, logs |-> <<>>]

\* load_dola_sya after download_dola_sya returned `success`
load_dola_sya(success, cache) ==
    IF ~success /\ ~Exists(cache)
    THEN [result |-> None, parsed |-> FALSE,
          logs |-> <<Entry("warning", "load_dola_sya", "unavailable, no cache", 0, "")>>]
    ELSE LET pre == IF ~success
                    THEN <<Entry("warning", "load_dola_sya", "Using cached DOLA file", 0, "")>>
                    ELSE <<>>
             t == ReadCsv(cache)
         IN IF IsExc(t) \/ t.type = "ParseError"
            THEN [result |-> None, parsed |-> TRUE,
                  logs |-> Append(pre, Entry("warning", "load_dola_sya", "Failed to parse", 0, ""))]
            ELSE [result |-> t, parsed |-> TRUE, logs |-> pre]

\* load_dola_sya up to the GET of download_dola_sya: os.makedirs of the
\* cache directory is outside the try-block
DolaBegin(mk) ==
    IF mk
    THEN [d |-> [IdleDola EXCEPT !.pc = "download"],
          h |-> StartHttp("http_get_text", "DOLA_SYA_URL", DOLA_SYA_URL,
                          DefaultRetries, DefaultBackoff),
          logs |-> <<Text(Entry("info", "download_dola_sya",
                                "Downloading DOLA SYA", 0, ""),
                          DOLA_SYA_URL, <<>>)>>]
    ELSE [d |-> [IdleDola EXCEPT !.pc = "raised",
                                 !.result = Val("OSError", 0, FALSE)],
          h |-> IdleHttp,
          logs |-> <<>>]

Call_load_dola_sya ==
    /\ Idle
    /\ \E f \in Faults("http_get_text") :
          top' = [NewTop("load_dola_sya") EXCEPT !.fault = f]
    /\ \E mk \in Makedirs(fs.cacheDir) :
          /\ dola' = DolaBegin(mk).d
          /\ http' = DolaBegin(mk).h
          /\ log' = DolaBegin(mk).logs
          /\ fs' = [fs EXCEPT !.cacheDir = fs.cacheDir \/ mk]
    /\ census' = IdleCensus
    /\ run' = IdleRun
    /\ lehd' = IdleLehd
    /\ net' = <<>>
    /\ counties' = NoCounties
    /\ UNCHANGED pure

\* the rest of download_dola_sya and of load_dola_sya once http_get_text
\* has returned or raised
load_dola_sya_resume ==
    /\ dola.pc = "download"
    /\ Terminal(http)
    /\ \E w \in WriteOutcomes, g \in BOOLEAN :
          LET dl == download_dola_sya(http, fs.cache, w, g)
              ld == load_dola_sya(dl.success, dl.cache)
          IN /\ dola' = [pc |-> "returned", success |-> dl.success,
                         parsed |-> ld.parsed, result |-> ld.result]
             /\ fs' = [fs EXCEPT !.cache = dl.cache,
                                 !.downloaded = IF dl.success THEN http.result
                                                ELSE fs.downloaded]
             /\ log' = log \o dl.logs \o ld.logs
             /\ top' = [top EXCEPT !.wrote = top.wrote \cup dl.wrote]
    /\ UNCHANGED <<http, census, run, net, lehd, counties, pure>>

(***************************************************************************)
(* LEHD: download_lehd                                                     *)
(***************************************************************************)
LehdFile == "co_wac_S000_JT00_2021.csv.gz"

\* f"{LEHD_BASE}/{state.lower()}/wac/{filename}"
LehdUrl == LEHD_BASE \o <<"/co/wac/", LehdFile>>

LehdBodies == {Val("gz", 1, TRUE)}

\* the file left behind when writing or streaming the body broke off
LehdPartial == Val("gz", 0, FALSE)

\* open(dest, "wb") and the iter_content loop: as WriteOutcomes, or the
\* connection breaks while the body is streamed
LehdWriteOutcomes == WriteOutcomes \cup {"stream_fail"}

\* a download that opens the destination file before it sends the request
download_lehd_opens_first(old, o, w) ==
    IF IsExc(o) THEN LehdPartial
    ELSE IF w = "ok" THEN o
    ELSE IF w = "open_fail" THEN old
    ELSE LehdPartial

\* the file at the destination path after the call: old is the file before,
\* o the outcome of requests.get and raise_for_status, w that of the writing
download_lehd_file(old, o, w) ==
    IF IsExc(o) THEN old
    ELSE IF w = "ok" THEN o
    ELSE IF w = "open_fail" THEN old
    ELSE LehdPartial

\* download_lehd is one GET without a loop: the whole function is one step.
\* at: the statement that raised ("makedirs", "get", "write") or "return"
Call_download_lehd ==
    /\ Idle
    /\ top' = NewTop("download_lehd")
    /\ \E mk \in Makedirs(fs.outDir) :
          IF ~mk
          THEN /\ lehd' = [pc |-> "raised", at |-> "makedirs",
                           result |-> Val("OSError", 0, FALSE)]
               /\ UNCHANGED fs
               /\ log' = <<>>
               /\ net' = <<>>
          ELSE \E o \in LehdBodies \cup RequestErrors(1), w \in LehdWriteOutcomes :
                 LET downloading ==
                         Text(Entry("info", "download_lehd", "Downloading LEHD", 0, ""),
                              LehdUrl, <<>>)
                 IN /\ net' = <<GetEvent("download_lehd", LehdFile)>>
                    /\ IF IsExc(o)
                       THEN /\ lehd' = [pc |-> "raised", at |-> "get", result |-> o]
                            /\ fs' = [fs EXCEPT !.outDir = TRUE,
                                                !.lehd = download_lehd_file(fs.lehd, o, w)]
                            /\ log' = <<downloading>>
                       ELSE IF w = "ok"
                       THEN /\ lehd' = [pc |-> "returned", at |-> "return",
                                        result |-> Val("path", o.id, TRUE)]
                            /\ fs' = [fs EXCEPT !.outDir = TRUE,
                                                !.lehd = download_lehd_file(fs.lehd, o, w)]
                            /\ log' = <<downloading,
                                        Entry("info", "download_lehd", "LEHD saved", 0, "")>>
                       ELSE /\ lehd' = [pc |-> "raised", at |-> "write",
                                        result |-> IF w = "stream_fail"
                                                   THEN Val("ConnectionError", 2, FALSE)
                                                   ELSE Val("OSError", 0, FALSE)]
                            /\ fs' = [fs EXCEPT !.outDir = TRUE,
                                                !.lehd = download_lehd_file(fs.lehd, o, w)]
                            /\ log' = <<downloading>>
    /\ http' = IdleHttp
    /\ census' = IdleCensus
    /\ dola' = IdleDola
    /\ run' = IdleRun
    /\ counties' = NoCounties
    /\ UNCHANGED pure

(***************************************************************************)
(* Run orchestrator: main                                                  *)
(***************************************************************************)
GeoFile == "geo_config.json"
GeoConfig == [generated |-> "utc_now_z", version |-> "1.0"]

\* a main that logs the directory error and goes on
main_begin_continue(mk) ==
    [r |-> [pc |-> "load_dola_sya", result |-> None, exit |-> -1],
     logs |-> <<Entry("info", "main", "HNA build started", 0, "")>> \o
              (IF mk THEN <<>>
               ELSE <<Entry("critical", "main", "Cannot create output directory", 0, "")>>)]

\* main up to load_dola_sya: os.makedirs(OUTPUT_DIR) raised OSError (~mk),
\* or the directory is there
main_begin(mk) ==
    IF ~mk
    THEN [r |-> [pc |-> "returned", result |-> None, exit |-> 1],
          logs |-> <<Entry("info", "main", "HNA build started", 0, ""),
                     Entry("critical", "main", "Cannot create output directory", 0, "")>>]
    ELSE [r |-> [pc |-> "load_dola_sya", result |-> None, exit |-> -1],
          logs |-> <<Entry("info", "main", "HNA build started", 0, "")>>]

\* a main that treats a missing SYA table as fatal
main_end_strict(sya_df) ==
    IF sya_df = None
    THEN [exit |-> 1, geo |-> fs.geo, wrote |-> {},
          logs |-> <<Entry("critical", "main", "Skipped SYA build", 0, "")>>]
    ELSE [exit |-> 0, geo |-> GeoConfig, wrote |-> {GeoFile},
          logs |-> <<Entry("info", "build_geo_derived_inputs", "called", 0, ""),
                     Entry("info", "build_summary_cache", "called", 0, ""),
                     Entry("info", "write_geo_config", "geo_config written", 0, ""),
                     Entry("info", "main", "HNA build finished", 0, "")>>]

\* main after load_dola_sya returned sya_df: the stubs, write_geo_config
main_end(sya_df) ==
    [exit |-> 0,
     geo |-> GeoConfig,
     wrote |-> {GeoFile},
     logs |-> (IF sya_df = None
               THEN <<Entry("warning", "main", "Skipped SYA build", 0, "")>>
               ELSE <<>>) \o
              <<Entry("info", "build_geo_derived_inputs", "called", 0, ""),
                Entry("info", "build_summary_cache", "called", 0, ""),
                Entry("info", "write_geo_config", "geo_config written", 0, ""),
                Entry("info", "main", "HNA build finished", 0, "")>>]

Call_main ==
    /\ Idle
    /\ \E mk \in Makedirs(fs.outDir) :
          /\ \E f \in Faults("http_get_text") :
                top' = [NewTop("main") EXCEPT
                          !.fault = f,
                          !.invoked = IF main_begin(mk).r.pc = "load_dola_sya"
                                      THEN <<"main", "load_dola_sya">>
                                      ELSE <<"main">>]
          /\ run' = main_begin(mk).r
          /\ IF main_begin(mk).r.pc = "load_dola_sya"
             THEN \E mkc \in Makedirs(fs.cacheDir) :
                    /\ dola' = DolaBegin(mkc).d
                    /\ http' = DolaBegin(mkc).h
                    /\ log' = main_begin(mk).logs \o DolaBegin(mkc).logs
                    /\ fs' = [fs EXCEPT !.outDir = fs.outDir \/ mk,
                                        !.cacheDir = fs.cacheDir \/ mkc]
             ELSE /\ dola' = IdleDola
                  /\ http' = IdleHttp
                  /\ log' = main_begin(mk).logs
                  /\ fs' = fs
    /\ census' = IdleCensus
    /\ lehd' = IdleLehd
    /\ net' = <<>>
    /\ counties' = NoCounties
    /\ UNCHANGED pure

\* main from the return of load_dola_sya to its own return; an exception
\* out of load_dola_sya is not caught by main
main_resume ==
    /\ run.pc = "load_dola_sya"
    /\ Terminal(dola)
    /\ IF dola.pc = "raised"
       THEN /\ run' = [run EXCEPT !.pc = "raised", !.result = dola.result]
            /\ UNCHANGED <<fs, log, top>>
       ELSE LET e == main_end(dola.result)
            IN /\ run' = [run EXCEPT !.pc = "returned", !.exit = e.exit]
               /\ fs' = [fs EXCEPT !.geo = e.geo]
               /\ log' = log \o e.logs
               /\ top' = [top EXCEPT !.wrote = top.wrote \cup e.wrote]
    /\ UNCHANGED <<http, census, dola, net, lehd, counties, pure>>

(***************************************************************************)
(* Geography list: fetch_counties                                          *)
(***************************************************************************)
_CO_FIPS_MIN == 1
_CO_FIPS_MAX == 124
_CO_FIPS_STEP == 2

Digits == <<"0", "1", "2", "3", "4", "5", "6", "7", "8", "9">>

\* str(n) of a non-negative integer: its decimal digits
RECURSIVE str(_)
str(n) == IF n < 10 THEN <<Digits[n + 1]>>
          ELSE str(n \div 10) \o <<Digits[(n % 10) + 1]>>

\* s.zfill(width): zeros on the left up to the width, never a cut
RECURSIVE zfill(_, _)
zfill(s, width) == IF Len(s) >= width THEN s ELSE zfill(<<"0">> \o s, width)

\* range(start, stop, step) for a positive step: stop is exclusive
RECURSIVE range(_, _, _)
range(start, stop, step) ==
    IF start >= stop THEN <<>>
    ELSE <<start>> \o range(start + step, stop, step)

\* a list that takes the upper bound for the last code instead of its successor
fetch_counties_short ==
    LET r == range(_CO_FIPS_MIN, _CO_FIPS_MAX - 1, _CO_FIPS_STEP)
    IN [i \in 1..Len(r) |-> zfill(str(r[i]), 3)]

\* [str(fips).zfill(3) for fips in range(_CO_FIPS_MIN, _CO_FIPS_MAX, _CO_FIPS_STEP)]
fetch_counties ==
    LET r == range(_CO_FIPS_MIN, _CO_FIPS_MAX, _CO_FIPS_STEP)
    IN [i \in 1..Len(r) |-> zfill(str(r[i]), 3)]

\* a call of fetch_counties: no network, no file, no log
Call_fetch_counties ==
    /\ IdleFresh
    /\ top' = NewTop("fetch_counties")
    /\ counties' = fetch_counties
    /\ http' = IdleHttp
    /\ census' = IdleCensus
    /\ dola' = IdleDola
    /\ run' = IdleRun
    /\ lehd' = IdleLehd
    /\ log' = <<>>
    /\ net' = <<>>
    /\ UNCHANGED <<fs, pure>>

(***************************************************************************)
(* Text helpers of the tabular reader and the county filters: strings are  *)
(* sequences of characters                                                 *)
(***************************************************************************)
Upper == <<"A", "B", "C", "D", "E", "F", "G", "H", "I", "J", "K", "L", "M",
           "N", "O", "P", "Q", "R", "S", "T", "U", "V", "W", "X", "Y", "Z">>
Lower == <<"a", "b", "c", "d", "e", "f", "g", "h", "i", "j", "k", "l", "m",
           "n", "o", "p", "q", "r", "s", "t", "u", "v", "w", "x", "y", "z">>

\* str.lower(): upper-case letters are replaced, every other character stays
lower(s) ==
    [i \in 1..Len(s) |->
        IF \E j \in 1..Len(Upper) : Upper[j] = s[i]
        THEN Lower[CHOOSE j \in 1..Len(Upper) : Upper[j] = s[i]]
        ELSE s[i]]

\* str.startswith(prefix)
startswith(s, prefix) ==
    Len(s) >= Len(prefix) /\ SubSeq(s, 1, Len(prefix)) = prefix

\* c.isdigit() of one character
isdigit(c) == \E j \in 1..Len(Digits) : Digits[j] = c

\* what str.strip() without an argument removes
Whitespace == {" ", "\t", "\n", "\r"}

\* s.strip(chars): the characters of the set are removed at both ends only
RECURSIVE strip(_, _)
strip(s, chars) ==
    IF s = <<>> THEN s
    ELSE IF s[1] \in chars THEN strip(Tail(s), chars)
    ELSE IF s[Len(s)] \in chars THEN strip(SubSeq(s, 1, Len(s) - 1), chars)
    ELSE s

\* line.split(",")[0]: the text in front of the first comma, or all of it
RECURSIVE first_of_split(_)
first_of_split(line) ==
    IF line = <<>> \/ line[1] = "," THEN <<>>
    ELSE <<line[1]>> \o first_of_split(Tail(line))

(***************************************************************************)
(* Tabular reader: read_csv_with_banner_skip                               *)
(***************************************************************************)
Keywords == {<<"v", "i", "n", "t", "a", "g", "e">>, <<"n", "o", "t", "e">>,
             <<"s", "o", "u", "r", "c", "e">>, <<"#">>}

\* first_cell = line.split(",")[0].strip().strip('"')
first_cell(line) == strip(strip(first_of_split(line), Whitespace), {"\""})

\* any(first_cell.lower().startswith(kw) for kw in (...))
starts_with_keyword(cell) == \E kw \in Keywords : startswith(lower(cell), kw)

\* a scan that passes over the lines that are no banner and goes on counting
RECURSIVE banner_skip_all(_, _, _)
banner_skip_all(lines, i, skip) ==
    IF i > Len(lines) THEN skip
    ELSE IF starts_with_keyword(first_cell(lines[i]))
         THEN banner_skip_all(lines, i + 1, skip + 1)
         ELSE banner_skip_all(lines, i + 1, skip)

\* the loop `for line in lines`, entered at line i with the count so far
RECURSIVE banner_skip(_, _, _)
banner_skip(lines, i, skip) ==
    IF i > Len(lines) THEN skip
    ELSE IF first_cell(lines[i]) = <<>> \/ isdigit(first_cell(lines[i])[1])
         THEN skip
         ELSE IF starts_with_keyword(first_cell(lines[i]))
              THEN banner_skip(lines, i + 1, skip + 1)
              ELSE skip

\* fh.readlines(): every line keeps its line end
readlines(file) == [i \in 1..Len(file) |-> file[i] \o <<"\n">>]

\* the whole function: the count, the log entry `if skip`, and
\* pd.read_csv(path, skiprows=skip), which starts at line skip + 1 and raises
\* EmptyDataError when nothing is left
read_csv_with_banner_skip(file) ==
    LET lines == readlines(file)
        skip == banner_skip(lines, 1, 0)
    IN [skip |-> skip,
        logs |-> IF skip # 0
                 THEN <<Entry("info", "read_csv_with_banner_skip", "skipping",
                              skip, "")>>
                 ELSE <<>>,
        pc |-> IF skip < Len(file) THEN "returned" ELSE "raised",
        parsed |-> SubSeq(file, skip + 1, Len(file))]

(***************************************************************************)
(* County filters: build_dola_sya_by_county, build_lehd_by_county          *)
(***************************************************************************)
\* A DataFrame as the filters see it: whether the column they filter on is
\* missing ("absent"), holds strings ("object") or holds numbers ("int64",
\* what read_csv infers for a column of digits), and that column's cells, one
\* per row (the rows of a table without the column hold their other cells)
Table(dtype, cells) == [type |-> "table", dtype |-> dtype, cells |-> cells]

\* the cells of a table after pd.read_csv(..., dtype=str): text, never numbers
read_as_str(df) ==
    IF df.dtype = "int64" THEN [df EXCEPT !.dtype = "object"] ELSE df

\* df.get(col, pd.Series(dtype=str)).str : the accessor exists on the column
\* and on the empty default, but not on a column of numbers
has_str_accessor(df) == df.dtype # "int64"

\* df[mask] accepts the mask of the column itself, and the empty default
\* mask only when the table has no rows to align it with
mask_aligns(df) == df.dtype = "object" \/ df.cells = <<>>

\* build_dola_sya_by_county(county, df)
build_dola_sya_by_county(county, df) ==
    IF df = None
    THEN [pc |-> "returned", result |-> None,
          logs |-> <<Entry("info", "build_dola_sya_by_county", "Skipped SYA build",
                           0, "")>>]
    ELSE IF ~has_str_accessor(df)
    THEN [pc |-> "raised", result |-> Val("AttributeError", 0, FALSE), logs |-> <<>>]
    ELSE IF ~mask_aligns(df)
    THEN [pc |-> "raised", result |-> Val("IndexingError", 0, FALSE), logs |-> <<>>]
    ELSE [pc |-> "returned",
          result |-> [df EXCEPT !.cells =
                        SelectSeq(df.cells, LAMBDA v : lower(v) = lower(county))],
          logs |-> <<>>]

\* build_lehd_by_county(county, lehd_path); parses: whether pd.read_csv reads
\* the file at lehd_path, df: what it reads. Every exception ends in the
\* handler, which logs and returns None
build_lehd_by_county(county, parses, df) ==
    IF ~parses \/ ~has_str_accessor(read_as_str(df)) \/ ~mask_aligns(read_as_str(df))
    THEN [pc |-> "returned", result |-> None,
          logs |-> <<Entry("warning", "build_lehd_by_county", "failed", 0, "")>>]
    ELSE [pc |-> "returned",
          result |-> [read_as_str(df) EXCEPT !.cells =
                        SelectSeq(df.cells, LAMBDA v : startswith(v, county))],
          logs |-> <<>>]

(***************************************************************************)
(* Redactor as a pure function: its inputs and its specification          *)
(***************************************************************************)
\* the pieces the input strings are built from
Segs == {KeyEq, Secret, <<"&">>, <<" ">>, <<"k">>, <<"e", "y", "=">>,
         Mask, KeyEq \o <<"x">>}

RECURSIVE Inputs(_)
Inputs(n) ==
    IF n = 0 THEN {<<>>}
    ELSE Inputs(n - 1) \cup {a \o b : a \in Inputs(n - 1), b \in Segs}

NoRd == [s |-> <<>>, once |-> <<>>, twice |-> <<>>, done |-> FALSE]

\* the tabular reader and the county filters have not been called
NoCsv == [file |-> <<>>, pc |-> "idle", skip |-> 0, parsed |-> <<>>]
NotCalled == [pc |-> "idle", result |-> None, logs |-> <<>>]
NoFlt == [county |-> <<>>, df |-> None, parses |-> FALSE,
          dola |-> NotCalled, lehd |-> NotCalled]

\* the program before any call, as a pure function named fn finds it
ProgramIdle(fn) ==
    /\ top = [fn |-> fn, wrote |-> {}, n |-> 0, invoked |-> <<>>,
             fault |-> "none"]
    /\ http = IdleHttp
    /\ census = IdleCensus
    /\ dola = IdleDola
    /\ run = IdleRun
    /\ lehd = IdleLehd
    /\ fs = [outDir |-> FALSE, cacheDir |-> FALSE, cache |-> NoFile,
             downloaded |-> NoFile, geo |-> NoGeo, lehd |-> NoFile]
    /\ log = <<>>
    /\ net = <<>>
    /\ counties = NoCounties

InitRedact ==
    /\ ProgramIdle("redact")
    /\ rd \in {[NoRd EXCEPT !.s = x] : x \in Inputs(MaxSegs)}
    /\ csv = NoCsv
    /\ flt = NoFlt

\* redact applied to the input, and to its own output
Call_redact ==
    /\ ~rd.done
    /\ rd' = [rd EXCEPT !.once = redact(rd.s),
                        !.twice = redact(redact(rd.s)),
                        !.done = TRUE]
    /\ UNCHANGED <<top, http, census, dola, run, fs, log, net, lehd, csv, flt, counties>>

NextRedact == Call_redact

SpecRedact == InitRedact /\ [][NextRedact]_vars

(***************************************************************************)
(* Tabular reader as a pure function: its inputs and its specification     *)
(***************************************************************************)
\* the lines the input files are built from, without their line ends:
\* four banners, a header, a data line, a line with an empty first cell, a
\* blank line, a header that begins like a banner, a cell whose quotes hide
\* a blank, and a keyword cut by the comma
SampleLines ==
    {<<"V", "i", "n", "t", "a", "g", "e", " ", "2", "3">>,
     <<"\"", "N", "O", "T", "E", "\"", ",", "x">>,
     <<" ", "s", "o", "u", "r", "c", "e", ",", "a">>,
     <<"#", "c">>,
     <<"c", "o", "u", "n", "t", "y", ",", "a", "g", "e">>,
     <<"0", "0", "1", ",", "5">>,
     <<",", "x">>,
     <<>>,
     <<"N", "o", "t", "e", "s", ",", "v">>,
     <<"\"", " ", "N", "o", "t", "e", "\"", ",", "x">>,
     <<"v", "i", "n", ",", "t", "a", "g", "e">>}

\* the sequences of at most n elements of a set
RECURSIVE SeqsUpTo(_, _)
SeqsUpTo(S, n) ==
    IF n = 0 THEN {<<>>}
    ELSE SeqsUpTo(S, n - 1) \cup {a \o <<b>> : a \in SeqsUpTo(S, n - 1), b \in S}

InitBanner ==
    /\ ProgramIdle("read_csv_with_banner_skip")
    /\ rd = NoRd
    /\ csv \in {[NoCsv EXCEPT !.file = f] : f \in SeqsUpTo(SampleLines, MaxLines)}
    /\ flt = NoFlt

\* read_csv_with_banner_skip applied to the input file
Call_read_csv_with_banner_skip ==
    /\ csv.pc = "idle"
    /\ LET r == read_csv_with_banner_skip(csv.file)
       IN /\ csv' = [csv EXCEPT !.pc = r.pc, !.skip = r.skip, !.parsed = r.parsed]
          /\ log' = r.logs
    /\ UNCHANGED <<top, http, census, dola, run, fs, net, lehd, rd, flt, counties>>

NextBanner == Call_read_csv_with_banner_skip

SpecBanner == InitBanner /\ [][NextBanner]_vars

(***************************************************************************)
(* County filters as pure functions: their inputs and their specification  *)
(***************************************************************************)
\* cells of a column of strings, of a column of numbers, and of another column
StrCells == {<<"0", "0", "1">>, <<"0", "0", "1", "3">>, <<"A", "d", "a", "m", "s">>}
NumCells == {<<"1">>, <<"1", "2", "3">>}
OtherCells == {<<"x">>}

\* a table without rows has no column of numbers: nothing to infer it from
Tables ==
    {Table("object", c) : c \in SeqsUpTo(StrCells, MaxRows)}
        \cup {Table("int64", c) : c \in SeqsUpTo(NumCells, MaxRows) \ {<<>>}}
        \cup {Table("absent", c) : c \in SeqsUpTo(OtherCells, MaxRows)}

\* the county arguments: every code of the fixed list
CountyCodes == {fetch_counties[i] : i \in 1..Len(fetch_counties)}

InitFilter ==
    /\ ProgramIdle("county_filter")
    /\ rd = NoRd
    /\ csv = NoCsv
    /\ flt \in {[NoFlt EXCEPT !.county = c, !.df = t, !.parses = p] :
                   c \in CountyCodes, t \in Tables \cup {None}, p \in BOOLEAN}

\* build_dola_sya_by_county applied to the county and the table (or None)
Call_build_dola_sya_by_county ==
    /\ flt.dola.pc = "idle"
    /\ flt' = [flt EXCEPT !.dola = build_dola_sya_by_county(flt.county, flt.df)]
    /\ log' = flt'.dola.logs
    /\ UNCHANGED <<top, http, census, dola, run, fs, net, lehd, rd, csv, counties>>

\* build_lehd_by_county applied to the county and a file holding the table
Call_build_lehd_by_county ==
    /\ flt.lehd.pc = "idle"
    /\ flt.df # None
    /\ flt' = [flt EXCEPT !.lehd = build_lehd_by_county(flt.county, flt.parses, flt.df)]
    /\ log' = flt'.lehd.logs
    /\ UNCHANGED <<top, http, census, dola, run, fs, net, lehd, rd, csv, counties>>

NextFilter ==
    \/ Call_build_dola_sya_by_county
    \/ Call_build_lehd_by_county

SpecFilter == InitFilter /\ [][NextFilter]_vars

(***************************************************************************)
(* The program                                                             *)
(***************************************************************************)

Init ==
    /\ top = [fn |-> "none", wrote |-> {}, n |-> 0, invoked |-> <<>>,
             fault |-> "none"]
    /\ http = IdleHttp
    /\ census = IdleCensus
    /\ dola = IdleDola
    /\ run = IdleRun
    /\ lehd = IdleLehd
    /\ fs = [outDir |-> FALSE, cacheDir |-> FALSE, cache |-> NoFile,
             downloaded |-> NoFile, geo |-> NoGeo, lehd |-> NoFile]
    /\ log = <<>>
    /\ net = <<>>
    /\ counties = NoCounties
    /\ rd = NoRd
    /\ csv = NoCsv
    /\ flt = NoFlt

Next ==
    \/ Call_http_get
    \/ http_get_attempt
    \/ http_get_exhausted
    \/ Call_fetch_acs
    \/ fetch_acs_step
    \/ Call_load_dola_sya
    \/ load_dola_sya_resume
    \/ Call_download_lehd
    \/ Call_main
    \/ main_resume
    \/ Call_fetch_counties

Spec == Init /\ [][Next]_vars

(***************************************************************************)
(* Vocabulary of the properties                                            *)
(***************************************************************************)
Count(seq, Test(_)) == Len(SelectSeq(seq, Test))

Gets == SelectSeq(net, LAMBDA e : e.op = "GET")
Sleeps == SelectSeq(net, LAMBDA e : e.op = "sleep")
SleepWaits == [i \in 1..Len(Sleeps) |-> Sleeps[i].wait]

GetsFor(d) == Count(net, LAMBDA e : e.op = "GET" /\ e.target = d)

Errors == SelectSeq(log, LAMBDA e : e.level = "error")
Logged(fn, msg) == \E i \in 1..Len(log) : log[i].fn = fn /\ log[i].msg = msg

\* the network trace of f failed attempts out of r with backoff b:
\* GET, sleep b^0, GET, sleep b^1, ..., no sleep after attempt r
RECURSIVE FailedTrace(_, _, _, _)
FailedTrace(fn, f, r, b) ==
    IF f = 0 THEN <<>>
    ELSE FailedTrace(fn, f - 1, r, b) \o <<GetEvent(fn, "url")>> \o
         (IF f <= r - 1
          THEN <<SleepEvent(fn, <<Pow(b[1], f - 1), Pow(b[2], f - 1)>>)>>
          ELSE <<>>)

DirectTransport == top.fn \in TransportFns

\* every attempt of the transport call failed with a request error
AllAttemptsFailed == http.retries >= 1 /\ http.attempt = http.retries

(***************************************************************************)
(* C1: in a transport call with retries = R >= 1 whose attempts all fail   *)
(* with a request error, exactly R GETs are made, a sleep of backoff^i     *)
(* follows failed attempt i for i = 0..R-2, none follows the last attempt  *)
(* (retries 3, backoff 2: sleeps 1 then 2), and only then the text variant *)
(* raises and the JSON variant returns None.                               *)
(***************************************************************************)
C1_RetryBackoff ==
    DirectTransport /\ http.retries >= 1 =>
      /\ http.pc = "loop" =>
            net = FailedTrace(http.fn, http.attempt, http.retries, http.backoff)
      /\ Terminal(http) /\ AllAttemptsFailed =>
            /\ net = FailedTrace(http.fn, http.retries, http.retries, http.backoff)
            /\ Len(Gets) = http.retries
            /\ Len(Sleeps) = http.retries - 1
            /\ http.retries = 3 /\ http.backoff = <<2, 1>> =>
                  SleepWaits = << <<1, 1>>, <<2, 1>> >>
            /\ http.fn = "http_get_text" =>
                  http.pc = "raised" /\ IsRequestException(http.result)
            /\ http.fn = "http_get_json" =>
                  http.pc = "returned" /\ http.result = None

C1_Witness ==
    /\ DirectTransport /\ http.fn = "http_get_json"
    /\ http.retries = 3 /\ http.backoff = <<2, 1>>
    /\ http.pc = "returned" /\ AllAttemptsFailed
    /\ Len(net) = 5

(***************************************************************************)
(* C2: http_get_json never raises, whatever the outcome of each GET        *)
(* attempt (connection error, timeout, HTTP error status, a body that is   *)
(* not JSON): it returns the parsed value or None.  http_get_text, after   *)
(* all attempts failed, raises the exception of the last attempt.          *)
(***************************************************************************)
C2_JsonNeverRaises ==
    /\ http.fn = "http_get_json" => http.pc # "raised"
    /\ http.fn = "http_get_json" /\ http.pc = "returned" =>
          http.result \in JsonValues
    /\ http.fn = "http_get_text" /\ http.pc = "raised" /\ http.retries >= 1 =>
          /\ http.attempt = http.retries
          /\ http.result.type \in {"ConnectionError", "Timeout", "HTTPError"}
          /\ http.result.id = http.retries

\* http_get_json gave up after a body that is not JSON on the last attempt
C2_Witness ==
    /\ http.fn = "http_get_json" /\ http.pc = "returned"
    /\ http.result = None
    /\ http.last_exc = Val("JSONDecodeError", http.retries, FALSE)
    /\ http.retries >= 2

\* the datasets for which _census_get logged a request, in order
Requested ==
    LET r == SelectSeq(log, LAMBDA e : e.msg = "Census request")
    IN [i \in 1..Len(r) |-> r[i].dataset]

NoData == SelectSeq(log, LAMBDA e : e.msg = "returned no data")
Succeeded == SelectSeq(log, LAMBDA e : e.msg = "succeeded")

InCensus == top.fn \in CensusFns

(***************************************************************************)
(* C3: fetch_acs_profile tries acs1/profile, acs1/subject, acs5/profile,   *)
(* acs5/subject in this order (fetch_acs_s0801: acs1/subject,              *)
(* acs5/subject); it returns the payload of the first entry whose result   *)
(* is a non-null JSON list, requests no later entry after it, and returns  *)
(* None exactly when every entry failed (null and non-list are failures).  *)
(***************************************************************************)
C3_Order(fn) ==
    IF fn = "fetch_acs_profile"
    THEN <<"acs/acs1/profile", "acs/acs1/subject", "acs/acs5/profile",
           "acs/acs5/subject">>
    ELSE <<"acs/acs1/subject", "acs/acs5/subject">>

C3_FallbackOrder ==
    InCensus =>
      LET order == C3_Order(census.fn)
          n == Len(Requested)
      IN /\ n = census.idx /\ n <= Len(order)
         /\ Requested = SubSeq(order, 1, n)
         /\ \A i \in 1..Len(net) :
               net[i].op = "GET" => \E j \in 1..n : net[i].target = order[j]
         \* every entry before the current one was requested and failed
         /\ \A j \in 1..(n - 1) :
               GetsFor(order[j]) >= 1 /\ NoData[j].dataset = order[j]
         /\ census.pc = "request" => Len(NoData) = n - 1
         /\ census.pc = "request" /\ http.pc = "loop" => census.result = None
         /\ census.pc = "returned" /\ census.result # None =>
               /\ census.result.type = "list"
               /\ census.result = http.result
               /\ http.target = order[n]
               /\ Gets[Len(Gets)].target = order[n]
               /\ Len(NoData) = n - 1
         /\ census.pc = "returned" /\ census.result = None =>
               /\ n = Len(order)
               /\ Len(NoData) = Len(order)
               /\ http.result = None \/ http.result.type # "list"
         /\ census.pc = "returned" =>
               (census.result = None <=> Len(NoData) = Len(order))

\* the third entry of the profile chain delivered after two failures
C3_Witness ==
    /\ top.fn = "fetch_acs_profile"
    /\ census.pc = "returned" /\ census.result.type = "list"
    /\ census.idx = 3
    /\ \E i \in 1..Len(net) : net[i].target = "acs/acs1/subject"

AdapterErrors ==
    SelectSeq(log, LAMBDA e : e.level = "error" /\ e.fn = census.fn)
TransportErrors ==
    SelectSeq(log, LAMBDA e : e.level = "error" /\ e.fn = "http_get_json")

C4_SuccessLogged ==
    census.pc = "returned" /\ census.result # None =>
      /\ Len(Succeeded) = 1
      /\ Succeeded[1].fn = census.fn
      /\ Succeeded[1].dataset = C3_Order(census.fn)[census.idx]
      /\ Succeeded[1].dataset = Gets[Len(Gets)].target
      /\ log[Len(log)] = Succeeded[1]
      /\ Len(AdapterErrors) = 0

(***************************************************************************)
(* C4 as claimed: in one call of a Census adapter, transport included, a   *)
(* success after N-1 failed entries is logged by exactly one success       *)
(* entry naming entry N; when all entries fail the adapter returns None    *)
(* and exactly one error-level entry is logged.                            *)
(***************************************************************************)
C4_OneErrorEntry ==
    InCensus =>
      /\ C4_SuccessLogged
      /\ census.pc = "returned" /\ Len(NoData) = Len(C3_Order(census.fn)) =>
            census.result = None /\ Len(Errors) = 1

(***************************************************************************)
(* C4 amended: a success after N-1 failed entries is logged by exactly one *)
(* success entry naming entry N; when all entries fail the adapter returns *)
(* None and logs exactly one error-level entry of its own, the last entry  *)
(* of the call; every other error-level entry is the exhaustion entry of   *)
(* http_get_json, one for each chain entry whose DefaultRetries GETs all   *)
(* failed.                                                                 *)
(***************************************************************************)
C4_OneAdapterError ==
    InCensus =>
      /\ C4_SuccessLogged
      /\ Len(Errors) = Len(AdapterErrors) + Len(TransportErrors)
      /\ \A i \in 1..Len(TransportErrors) :
            /\ GetsFor(TransportErrors[i].dataset) = DefaultRetries
            /\ \A j \in 1..Len(TransportErrors) :
                  TransportErrors[j].dataset = TransportErrors[i].dataset => j = i
      /\ census.pc = "request" => Len(AdapterErrors) = 0
      /\ census.pc = "returned" /\ Len(NoData) = Len(C3_Order(census.fn)) =>
            /\ census.result = None
            /\ Len(AdapterErrors) = 1
            /\ log[Len(log)] = AdapterErrors[1]
            /\ Len(Errors) <= 1 + Len(C3_Order(census.fn))

\* all four profile entries failed, two of them in the transport
C4_Witness ==
    /\ top.fn = "fetch_acs_profile"
    /\ census.pc = "returned" /\ census.result = None
    /\ Len(AdapterErrors) = 1
    /\ Len(TransportErrors) = 2

(***************************************************************************)
(* C5: load_dola_sya follows the chain fresh download, else existing cache *)
(* file, else absent: a failed download with a cache file that exists and  *)
(* parses returns the table parsed from the cache and logs a warning that  *)
(* the data is cached; a failed download without a cache file returns None *)
(* and parses nothing.                                                     *)
(***************************************************************************)
C5_CacheFallback ==
    dola.pc = "returned" =>
      /\ ~dola.success /\ Exists(fs.cache) /\ fs.cache.good =>
            /\ dola.result = Val("table", fs.cache.id, TRUE)
            /\ dola.parsed
            /\ \E i \in 1..Len(log) :
                  /\ log[i].level = "warning"
                  /\ log[i].msg = "Using cached DOLA file"
      /\ ~dola.success /\ ~Exists(fs.cache) =>
            /\ dola.result = None
            /\ ~dola.parsed
            /\ ~Logged("load_dola_sya", "Using cached DOLA file")
      /\ dola.success =>
            /\ http.pc = "returned" /\ fs.cache = http.result
            /\ dola.parsed
            /\ ~Logged("load_dola_sya", "Using cached DOLA file")
            /\ fs.cache.good => dola.result = Val("table", http.result.id, TRUE)

\* the download failed in the transport and an earlier payload is served
C5_Witness ==
    /\ top.fn = "load_dola_sya"
    /\ dola.pc = "returned" /\ ~dola.success
    /\ http.pc = "raised"
    /\ fs.cache.id >= 1
    /\ dola.result = Val("table", fs.cache.id, TRUE)

(***************************************************************************)
(* C6: no exception escapes a best-effort adapter (load_dola_sya with      *)
(* download_dola_sya, fetch_acs_profile, fetch_acs_s0801): every failure   *)
(* inside it, creating the cache directory included, becomes an absent     *)
(* result.                                                                 *)
(***************************************************************************)
C6_NoEscape ==
    /\ dola.pc # "raised"
    /\ census.pc # "raised"

(***************************************************************************)
(* C7: if the output directory cannot be created, main returns exit code 1 *)
(* and the run issues no HTTP request, invokes no source adapter and       *)
(* writes no artifact.                                                     *)
(***************************************************************************)
C7_DirFailureAborts ==
    top.fn = "main" /\ ~fs.outDir =>
      /\ run.pc = "returned" /\ run.exit = 1
      /\ net = <<>>
      /\ http.pc = "idle" /\ dola.pc = "idle"
      /\ census.pc = "idle" /\ lehd.pc = "idle"
      /\ top.wrote = {}
      /\ log[Len(log)].level = "critical"

C7_Witness ==
    /\ top.fn = "main" /\ ~fs.outDir
    /\ run.pc = "returned" /\ run.exit = 1

(***************************************************************************)
(* C8: a run of main invokes the critical adapter download_lehd, and when  *)
(* its download fails the run ends with exit code 1 after a fatal-level    *)
(* log entry, without a per-county employment artifact.                    *)
(***************************************************************************)
C8_LehdInvoked ==
    top.fn = "main" /\ fs.outDir /\ run.pc = "returned" =>
      /\ lehd.pc # "idle"
      /\ lehd.pc = "raised" =>
            /\ run.pc = "returned" /\ run.exit = 1
            /\ \E i \in 1..Len(log) : log[i].level = "critical"

Contains(s, sub) ==
    \E i \in 1..(Len(s) - Len(sub) + 1) : SubSeq(s, i, i + Len(sub) - 1) = sub

Occurrences(s, sub) ==
    Cardinality({i \in 1..(Len(s) - Len(sub) + 1) :
                    SubSeq(s, i, i + Len(sub) - 1) = sub})

\* a run of characters without delimiter, as the claim reads it: the text up
\* to and including the first key= that has a value stays, the value
\* becomes the mask
MaskedToken(tok) ==
    LET P == {p \in 1..(Len(tok) - 4) : SubSeq(tok, p, p + 3) = KeyEq}
    IN IF P = {} THEN tok
       ELSE LET p == CHOOSE q \in P : \A r \in P : q <= r
            IN SubSeq(tok, 1, p + 3) \o Mask

\* s with every delimiter kept and every run between delimiters masked
RECURSIVE MaskedValues(_)
MaskedValues(s) ==
    IF s = <<>> THEN <<>>
    ELSE LET D == {i \in 1..Len(s) : IsDelim(s[i])}
             d == IF D = {} THEN Len(s) + 1
                  ELSE CHOOSE i \in D : \A j \in D : i <= j
         IN MaskedToken(SubSeq(s, 1, d - 1)) \o
            (IF d > Len(s) THEN <<>>
             ELSE <<s[d]>> \o MaskedValues(SubSeq(s, d + 1, Len(s))))

C10_Idempotent == rd.done => rd.twice = rd.once

C10_OutsideUnchanged == rd.done => rd.once = MaskedValues(rd.s)

(***************************************************************************)
(* C10 as claimed: redact(redact(s)) = redact(s) for every string s; for   *)
(* every URL containing key=SECRET123 the output does not contain          *)
(* SECRET123; every character outside the value of a key=<value>           *)
(* occurrence is unchanged.                                                *)
(***************************************************************************)
C10_NoSecretAnywhere ==
    /\ C10_Idempotent
    /\ C10_OutsideUnchanged
    /\ rd.done /\ Contains(rd.s, KeyEq \o Secret) => ~Contains(rd.once, Secret)

(***************************************************************************)
(* C10 amended: redact(redact(s)) = redact(s) for every string s; every    *)
(* character outside the value of a key=<value> occurrence is unchanged    *)
(* and every such value becomes ***; so the output never contains          *)
(* key=SECRET123, and it contains SECRET123 only where the input has it    *)
(* outside a key= value: it is free of SECRET123 when every SECRET123 of   *)
(* the input directly follows a key=.                                      *)
(***************************************************************************)
C10_SecretMasked ==
    /\ C10_Idempotent
    /\ C10_OutsideUnchanged
    /\ rd.done =>
          /\ ~Contains(rd.once, KeyEq \o Secret)
          /\ Occurrences(rd.once, Secret) <= Occurrences(rd.s, Secret)
          /\ Occurrences(rd.s, Secret) = Occurrences(rd.s, KeyEq \o Secret) =>
                ~Contains(rd.once, Secret)

\* a key in front of another parameter: the value is masked up to the &
C10_Witness ==
    /\ rd.done
    /\ Contains(rd.s, KeyEq \o Secret \o <<"&">>)
    /\ ~Contains(rd.once, Secret)
    /\ Contains(rd.once, KeyEq \o Mask \o <<"&">>)
    /\ rd.twice = rd.once

(***************************************************************************)
(* C11: every log entry that contains a URL contains it only in the form   *)
(* redact returns: the URL a line logs as its argument and the URL inside  *)
(* an exception text it logs are both left unchanged by redact.            *)
(***************************************************************************)
InRedactedForm(text) == redact(text) = text

C11_UrlsRedacted ==
    \A i \in 1..Len(log) :
        InRedactedForm(log[i].url) /\ InRedactedForm(log[i].exc)

(***************************************************************************)
(* C12: both county filters return absent for an absent input, and for     *)
(* every present input table, whatever its columns and rows, and every     *)
(* county code of the fixed list they return a table, possibly empty:      *)
(* they never raise and never return the absent value.                     *)
(***************************************************************************)
ReturnsTable(r) == r.pc = "returned" /\ r.result # None /\ r.result.type = "table"

C12_FilterTotal ==
    /\ flt.dola.pc # "idle" =>
          IF flt.df = None
          THEN flt.dola.pc = "returned" /\ flt.dola.result = None
          ELSE ReturnsTable(flt.dola)
    /\ flt.lehd.pc # "idle" /\ flt.parses => ReturnsTable(flt.lehd)

(***************************************************************************)
(* C13: read_csv_with_banner_skip skips exactly the N leading lines whose  *)
(* first cell, trimmed of whitespace and then of quotes, starts            *)
(* case-insensitively with vintage, note, source or #: parsing starts at   *)
(* line N+1, the count is 0 without such leading lines, and a keyword line *)
(* behind the first line that is no banner is never skipped.               *)
(***************************************************************************)
\* the sample lines that start with a keyword, classified by hand:
\* `Vintage 23`, `"NOTE",x`, ` source,a`, `#c` and `Notes,v`
BannerSamples ==
    {<<"V", "i", "n", "t", "a", "g", "e", " ", "2", "3">>,
     <<"\"", "N", "O", "T", "E", "\"", ",", "x">>,
     <<" ", "s", "o", "u", "r", "c", "e", ",", "a">>,
     <<"#", "c">>,
     <<"N", "o", "t", "e", "s", ",", "v">>}

\* the number of leading banner lines of a file
LeadingBanners(file) ==
    CHOOSE n \in 0..Len(file) :
        /\ \A i \in 1..n : file[i] \in BannerSamples
        /\ n = Len(file) \/ file[n + 1] \notin BannerSamples

C13_SkipsLeadingBanners ==
    csv.pc # "idle" =>
        /\ csv.skip = LeadingBanners(csv.file)
        /\ csv.parsed = SubSeq(csv.file, LeadingBanners(csv.file) + 1, Len(csv.file))
        /\ \A i \in 1..Len(csv.file) :
              i > LeadingBanners(csv.file) => csv.parsed[i - csv.skip] = csv.file[i]
        /\ (csv.file = <<>> \/ csv.file[1] \notin BannerSamples) => csv.skip = 0
        /\ Len(log) = (IF csv.skip = 0 THEN 0 ELSE 1)

\* one banner, the header, and a keyword line among the data
C13_Witness ==
    /\ csv.pc = "returned"
    /\ Len(csv.file) = 3
    /\ csv.file[1] \in BannerSamples
    /\ csv.file[2] = <<"c", "o", "u", "n", "t", "y", ",", "a", "g", "e">>
    /\ csv.file[3] \in BannerSamples
    /\ csv.skip = 1
    /\ csv.parsed = <<csv.file[2], csv.file[3]>>

(***************************************************************************)
(* C14: a call of download_lehd makes exactly one GET, without retry and   *)
(* without sleep; when the request fails or answers an error status the    *)
(* call raises and the file at the destination path is as before (none is  *)
(* created); on success the body is in the file                            *)
(* co_wac_S000_JT00_2021.csv.gz of the destination directory and that path *)
(* is returned.                                                            *)
(***************************************************************************)
\* a step that is a whole call of download_lehd
LehdCall == top'.n # top.n /\ top'.fn = "download_lehd"

C14_Step ==
    LehdCall =>
        /\ Len(Gets') <= 1
        /\ Sleeps' = <<>>
        /\ lehd'.at # "makedirs" =>
              net' = <<GetEvent("download_lehd", "co_wac_S000_JT00_2021.csv.gz")>>
        /\ lehd'.at = "get" =>
              /\ lehd'.pc = "raised"
              /\ IsRequestException(lehd'.result)
              /\ fs'.lehd = fs.lehd
        /\ lehd'.pc = "returned" =>
              /\ fs'.lehd \in LehdBodies
              /\ lehd'.result = Val("path", fs'.lehd.id, TRUE)
              /\ lehd'.at = "return"

BestEffortAdapters == {"load_dola_sya", "fetch_acs_profile", "fetch_acs_s0801"}

Invocations(a) == Count(top.invoked, LAMBDA f : f = a)

C15_AdaptersOncePerRun ==
    top.fn = "main" /\ run.pc = "returned" /\ run.exit = 0 =>
        \A a \in BestEffortAdapters : Invocations(a) = 1

(***************************************************************************)
(* C16: fetch_counties returns exactly the odd codes from 001 to 123, each *)
(* of three digits with zeros on the left, ascending and without           *)
(* duplicates: 62 values.                                                  *)
(***************************************************************************)
\* the number a string of digits stands for
RECURSIVE NumberOf(_)
NumberOf(code) ==
    IF code = <<>> THEN 0
    ELSE 10 * NumberOf(SubSeq(code, 1, Len(code) - 1))
           + (CHOOSE d \in 0..9 : Digits[d + 1] = code[Len(code)])

Warnings == SelectSeq(log, LAMBDA e : e.level = "warning" /\ e.fn \in TransportFns)

\* the transport call returned the answer of a GET (not None after the loop)
GetSucceeded == http.pc = "returned" /\ http.attempt < http.retries

\* the GETs of the call that failed
FailedGets == Len(Gets) - (IF GetSucceeded THEN 1 ELSE 0)

\* warning i carries the attempt number i and the redacted URL
WarningsNumbered ==
    \A i \in 1..Len(Warnings) :
        Warnings[i].attempt = i /\ Warnings[i].url = redact(http.url)

\* after the successful GET nothing follows: it is the last event of the
\* trace, each GET before it failed and was followed by one sleep, and no
\* error entry is logged
NothingAfterSuccess ==
    GetSucceeded =>
        /\ net[Len(net)].op = "GET"
        /\ Len(Gets) = http.attempt + 1
        /\ Len(Sleeps) = http.attempt
        /\ Len(log) = http.attempt
        /\ Errors = <<>>

(***************************************************************************)
(* C17 as stated: in a transport call every failed GET, the final one      *)
(* included, produces one warning entry with the attempt number and the    *)
(* redacted URL, and after a successful GET no further GET, sleep or       *)
(* failure entry occurs.                                                   *)
(***************************************************************************)
C17_EveryFailureWarned ==
    DirectTransport =>
        /\ Len(Warnings) = FailedGets
        /\ WarningsNumbered
        /\ NothingAfterSuccess

(***************************************************************************)
(* C17, amended: every failed GET except the final one of the call (the    *)
(* one with attempt number = retries) produces one warning entry with the  *)
(* attempt number and the redacted URL; the final failed GET produces no   *)
(* warning: http_get_json then logs one error entry with the redacted URL  *)
(* and without attempt number, http_get_text logs nothing and raises.      *)
(* After a successful GET no further GET, sleep or failure entry occurs.   *)
(***************************************************************************)
C17_EarlierFailuresWarned ==
    DirectTransport =>
        /\ Len(Warnings) = (IF FailedGets = http.retries /\ FailedGets > 0
                            THEN http.retries - 1 ELSE FailedGets)
        /\ WarningsNumbered
        /\ Terminal(http) /\ FailedGets = http.retries /\ FailedGets > 0 =>
              IF http.fn = "http_get_json"
              THEN /\ Len(Errors) = 1
                   /\ log[Len(log)] = Errors[1]
                   /\ Errors[1].url = redact(http.url)
                   /\ Errors[1].attempt = 0
              ELSE /\ Errors = <<>>
                   /\ Len(log) = Len(Warnings)
                   /\ http.pc = "raised"
        /\ NothingAfterSuccess

\* http_get_text gave up after two failed GETs on a URL with a key: one
\* warning, for the first
C17_Witness ==
    /\ DirectTransport /\ http.fn = "http_get_text"
    /\ http.retries = 2 /\ http.pc = "raised"
    /\ Contains(http.url, Secret)
    /\ Len(Gets) = 2
    /\ Len(log) = 1 /\ log[1].attempt = 1
    /\ ~Contains(log[1].url, Secret)

\* the key value occurs in a log entry: in its URL or in its exception text
KeyLogged(e) == Contains(e.url, Secret) \/ Contains(e.exc, Secret)

(***************************************************************************)
(* C18: during a Census request made with an API key the key value is in   *)
(* the requested URL and in no log entry of the call, whatever the         *)
(* outcome: not in the request line, not in a retry warning and not in the *)
(* exhaustion error, which log the text of the transport exception too.    *)
(***************************************************************************)
C18_KeyNeverLogged ==
    InCensus /\ census.key =>
        /\ http.pc # "idle" => Contains(http.url, ApiKey)
        /\ \A i \in 1..Len(log) : ~KeyLogged(log[i])

\* what parsing the payload of the most recent successful download gives:
\* its table, or None when there is none or it does not parse
FreshestTable ==
    IF fs.downloaded = NoFile \/ ~fs.downloaded.good THEN None
    ELSE Val("table", fs.downloaded.id, TRUE)

(***************************************************************************)
(* C19: across runs, what load_dola_sya returns is parsed from the payload *)
(* of the most recent successful download up to and including the run: a   *)
(* failed download leaves the content of the cache file unchanged, a       *)
(* successful one replaces it before it is read, and the result is None    *)
(* exactly when no download has succeeded yet or that payload does not     *)
(* parse.                                                                  *)
(***************************************************************************)
C19_FreshestPayload ==
    dola.pc = "returned" =>
        /\ fs.cache = fs.downloaded
        /\ dola.result = FreshestTable

(***************************************************************************)
(* C20: a transport call with retries <= 0 makes no GET and no sleep:      *)
(* http_get_text raises the placeholder error 'No attempts made', which is *)
(* no transport error, and http_get_json logs one error entry and returns  *)
(* None.                                                                   *)
(***************************************************************************)
C20_NoAttempts ==
    DirectTransport /\ http.retries <= 0 =>
        /\ net = <<>>
        /\ http.attempt = 0
        /\ http.pc = "loop" => log = <<>>
        /\ Terminal(http) /\ http.fn = "http_get_text" =>
              /\ http.pc = "raised"
              /\ http.result = NoAttemptsMade
              /\ http.result.type = "RuntimeError"
              /\ ~IsRequestException(http.result)
              /\ log = <<>>
        /\ Terminal(http) /\ http.fn = "http_get_json" =>
              /\ http.pc = "returned"
              /\ http.result = None
              /\ Len(log) = 1
              /\ log[1].level = "error"
              /\ log[1].exc = <<"No", " ", "attempts", " ", "made">>

\* a JSON call with a negative retries argument has returned
C20_Witness ==
    /\ DirectTransport /\ http.fn = "http_get_json"
    /\ http.retries = -1
    /\ http.pc = "returned"
    /\ Len(Errors) = 1
    /\ Gets = <<>>

====
